---------------------------- MODULE Spec2Model ----------------------------
(***************************************************************************)
(* A model of src/src/lib.rs: the DirectedGraph container (add_node,       *)
(* add_edge) and topological_sort (Kahn's algorithm).                      *)
(*                                                                         *)
(* The Rc<RefCell<Node<T>>> allocations live in `heap`, a sequence of Node *)
(* records; the address of an allocation is its index in `heap`, so a      *)
(* NodeRef is the record [ptr |-> index].  topological_sort is unrolled    *)
(* into its steps: the collect at entry, one step per removal from S, one  *)
(* step per iteration of the inner for loop, and the final scan.           *)
(*                                                                         *)
(* Spec is one DirectedGraph; SpecForeign adds a second instance whose     *)
(* handles may be passed to add_edge.  `pre` and `calls` record the heap   *)
(* at the entry of topological_sort and the add_edge calls made.           *)
(***************************************************************************)
EXTENDS Naturals, Sequences, FiniteSets, Bags

\* Bounds of the model: how many add_node and add_edge calls are explored.
MaxNodes == 3
MaxEdges == 3

\* The payloads handed to add_node.  T is opaque to the graph, and every node
\* carries the same payload, so that no two handles differ by their payload.
Data == {"x"}

VARIABLES
    heap,     \* the Node allocations: heap[p] is the Node behind address p
    nodes,    \* DirectedGraph.nodes
    pc,       \* "build" | "while" | "for" | "done" | "panic"
    s,        \* topological_sort: the HashSet S
    result,   \* topological_sort: the Vec result
    n,        \* topological_sort: the node removed from S (NoRef outside the for loop)
    i,        \* topological_sort: position of the for loop in n's outgoing list
    ret,      \* what topological_sort returned: "pending" | "None" | "Some"
    pre,      \* the heap as it was when topological_sort was entered
    other,    \* the nodes of a second DirectedGraph, which is never sorted
    calls     \* the add_edge calls made: the bag of their <<from, to>> addresses

vars == <<heap, nodes, pc, s, result, n, i, ret, pre, other, calls>>

NoRef == [ptr |-> 0]

-----------------------------------------------------------------------------
\* Node::new
NodeNew(x) == [data |-> x, incoming |-> <<>>, outgoing |-> <<>>]

\* NodeRef::clone: a second handle to the same allocation
Clone(h) == [ptr |-> h.ptr]

\* PartialEq for NodeRef, by the payloads instead of the addresses
NodeRefEqByData(a, b) == heap[a.ptr].data = heap[b.ptr].data

\* PartialEq for NodeRef: the addresses are compared
NodeRefEq(a, b) == a.ptr = b.ptr

\* remove_item that leaves the vector as it is
remove_nothing(vec, item) == vec

\* remove_item that empties the vector (vec.clear())
remove_all(vec, item) == <<>>

\* remove_item that moves the last element into the place of the first equal one
\* (Vec::swap_remove)
remove_item_swap(vec, item) ==
    IF \E k \in 1..Len(vec) : NodeRefEq(vec[k], item)
    THEN LET k == CHOOSE j \in 1..Len(vec) :
                     /\ NodeRefEq(vec[j], item)
                     /\ \A l \in 1..(j - 1) : ~NodeRefEq(vec[l], item)
         IN SubSeq([vec EXCEPT ![k] = vec[Len(vec)]], 1, Len(vec) - 1)
    ELSE vec

\* remove_item: vec.retain(|e| e != item)
remove_item(vec, item) == SelectSeq(vec, LAMBDA e : ~NodeRefEq(e, item))

\* HashSet::insert: the set keeps one element per equality class
SetInsert(set, h) == IF \E e \in set : NodeRefEq(e, h) THEN set ELSE set \cup {h}

\* HashSet::remove
SetRemove(set, h) == {e \in set : ~NodeRefEq(e, h)}

\* Iterator::collect into a HashSet: the elements are inserted one by one
RECURSIVE Collect(_)
Collect(seq) ==
    IF seq = <<>> THEN {}
    ELSE SetInsert(Collect(SubSeq(seq, 1, Len(seq) - 1)), seq[Len(seq)])

\* the number of edges in the heap (the add_edge calls made so far)
RECURSIVE NumEdges(_)
NumEdges(h) ==
    IF h = <<>> THEN 0
    ELSE Len(h[Len(h)].outgoing) + NumEdges(SubSeq(h, 1, Len(h) - 1))

\* the handles the caller holds: the ones add_node returned
Handles == {nodes[k] : k \in 1..Len(nodes)}

\* the handles the second graph's add_node returned
OtherHandles == {other[k] : k \in 1..Len(other)}

\* the RefCell borrow flag of the node at address p between two steps: the for
\* loop of topological_sort holds n.ptr.borrow() from its first to its last iteration
BorrowFlag(p) == IF pc = "for" /\ n.ptr = p THEN "shared" ELSE "unused"

\* RefCell::borrow_mut panics unless the cell is not borrowed at all
BorrowMutFails(flag) == flag # "unused"

-----------------------------------------------------------------------------
Init ==
    /\ heap = <<>>
    /\ nodes = <<>>          \* DirectedGraph::default()
    /\ pc = "build"
    /\ s = {}
    /\ result = <<>>
    /\ n = NoRef
    /\ i = 0
    /\ ret = "pending"
    /\ pre = <<>>
    /\ other = <<>>          \* DirectedGraph::default()
    /\ calls = EmptyBag

\* add_node that hands out the handle without keeping it in self.nodes
add_node_forget(data) ==
    /\ pc = "build"
    /\ Len(heap) < MaxNodes
    /\ heap' = Append(heap, NodeNew(data))
    /\ UNCHANGED <<nodes, pc, s, result, n, i, ret, pre, other, calls>>

\* DirectedGraph::add_node
add_node(data) ==
    /\ pc = "build"
    /\ Len(heap) < MaxNodes
    /\ LET res == [ptr |-> Len(heap) + 1]       \* NodeRef::new: a fresh allocation
       IN /\ heap' = Append(heap, NodeNew(data))
          /\ nodes' = Append(nodes, Clone(res))
    /\ UNCHANGED <<pc, s, result, n, i, ret, pre, other, calls>>

\* add_edge that skips an edge the graph already has
add_edge_dedup(from, to) ==
    /\ pc = "build"
    /\ NumEdges(heap) < MaxEdges
    /\ calls' = calls (+) SetToBag({<<from.ptr, to.ptr>>})
    /\ LET h1 == [heap EXCEPT ![from.ptr].outgoing = Append(@, Clone(to))]
       IN heap' = IF \E k \in 1..Len(heap[from.ptr].outgoing) :
                        NodeRefEq(heap[from.ptr].outgoing[k], to)
                  THEN heap
                  ELSE [h1 EXCEPT ![to.ptr].incoming = Append(@, Clone(from))]
    /\ UNCHANGED <<nodes, pc, s, result, n, i, ret, pre, other>>

\* add_edge that keeps the borrow of `from` while it borrows `to`
add_edge_both_borrows(from, to) ==
    /\ pc = "build"
    /\ NumEdges(heap) < MaxEdges
    /\ calls' = calls (+) SetToBag({<<from.ptr, to.ptr>>})
    /\ LET h1 == [heap EXCEPT ![from.ptr].outgoing = Append(@, Clone(to))]
           h2 == [h1 EXCEPT ![to.ptr].incoming = Append(@, Clone(from))]
       IN IF BorrowMutFails(BorrowFlag(from.ptr))
          THEN heap' = heap /\ pc' = "panic"
          ELSE IF BorrowMutFails(BorrowFlag(to.ptr)) \/ to.ptr = from.ptr
          THEN heap' = h1 /\ pc' = "panic"
          ELSE heap' = h2 /\ pc' = pc
    /\ UNCHANGED <<nodes, s, result, n, i, ret, pre, other>>

\* DirectedGraph::add_edge.  Each statement takes its borrow_mut and gives it
\* back at its end, so the second borrow finds the flag as the first found it.
add_edge(from, to) ==
    /\ pc = "build"
    /\ NumEdges(heap) < MaxEdges
    /\ calls' = calls (+) SetToBag({<<from.ptr, to.ptr>>})
    /\ LET h1 == [heap EXCEPT ![from.ptr].outgoing = Append(@, Clone(to))]
           h2 == [h1 EXCEPT ![to.ptr].incoming = Append(@, Clone(from))]
       IN IF BorrowMutFails(BorrowFlag(from.ptr))
          THEN heap' = heap /\ pc' = "panic"
          ELSE IF BorrowMutFails(BorrowFlag(to.ptr))
          THEN heap' = h1 /\ pc' = "panic"
          ELSE heap' = h2 /\ pc' = pc
    /\ UNCHANGED <<nodes, s, result, n, i, ret, pre, other>>

\* add_node on the second DirectedGraph: its handle is not in self.nodes
add_node_other(data) ==
    /\ pc = "build"
    /\ Len(heap) < MaxNodes
    /\ LET res == [ptr |-> Len(heap) + 1]
       IN /\ heap' = Append(heap, NodeNew(data))
          /\ other' = Append(other, Clone(res))
    /\ UNCHANGED <<nodes, pc, s, result, n, i, ret, pre, calls>>

\* the entry that collects every node into S, ready or not
SortEnterNoFilter ==
    /\ pc = "build"
    /\ result' = <<>>
    /\ s' = Collect(nodes)
    /\ pc' = "while"
    /\ pre' = heap
    /\ UNCHANGED <<heap, nodes, n, i, ret, other, calls>>

\* topological_sort, entry: result is empty and S is collected from self.nodes
SortEnter ==
    /\ pc = "build"
    /\ result' = <<>>
    /\ s' = Collect(SelectSeq(nodes, LAMBDA e : heap[e.ptr].incoming = <<>>))
    /\ pc' = "while"
    /\ pre' = heap
    /\ UNCHANGED <<heap, nodes, n, i, ret, other, calls>>

\* the while loop's head that always takes the node created first among those in S
SortRemoveFirst ==
    /\ pc = "while"
    /\ s # {}
    /\ \E e \in s :
         /\ \A o \in s : e.ptr <= o.ptr
         /\ n' = (IF heap[e.ptr].outgoing = <<>> THEN NoRef ELSE Clone(e))
         /\ s' = SetRemove(s, e)
         /\ result' = Append(result, Clone(e))
         /\ pc' = (IF heap[e.ptr].outgoing = <<>> THEN "while" ELSE "for")
         /\ i' = (IF heap[e.ptr].outgoing = <<>> THEN 0 ELSE 1)
    /\ UNCHANGED <<heap, nodes, ret, pre, other, calls>>

\* topological_sort, the while loop's head: a node n is removed from S and pushed
\* to result; the for loop over n's outgoing list starts (or is skipped when empty)
SortRemove ==
    /\ pc = "while"
    /\ s # {}
    /\ \E e \in s :                       \* s.iter().next(): any element
         /\ n' = (IF heap[e.ptr].outgoing = <<>> THEN NoRef ELSE Clone(e))
         /\ s' = SetRemove(s, e)
         /\ result' = Append(result, Clone(e))
         /\ pc' = (IF heap[e.ptr].outgoing = <<>> THEN "while" ELSE "for")
         /\ i' = (IF heap[e.ptr].outgoing = <<>> THEN 0 ELSE 1)
    /\ UNCHANGED <<heap, nodes, ret, pre, other, calls>>

\* the for loop's iteration that inserts m into S whether or not m still has
\* incoming edges
SortVisitInsertAlways ==
    /\ pc = "for"
    /\ LET m == heap[n.ptr].outgoing[i]
           inc == remove_item(heap[m.ptr].incoming, n)
           last == (i = Len(heap[n.ptr].outgoing))
       IN IF m.ptr = n.ptr
          THEN /\ pc' = "panic"
               /\ UNCHANGED <<heap, s, n, i>>
          ELSE /\ heap' = [heap EXCEPT ![m.ptr].incoming = inc]
               /\ s' = SetInsert(s, Clone(m))
               /\ pc' = (IF last THEN "while" ELSE "for")
               /\ n' = (IF last THEN NoRef ELSE n)
               /\ i' = (IF last THEN 0 ELSE i + 1)
    /\ UNCHANGED <<nodes, result, ret, pre, other, calls>>

\* topological_sort, one iteration of the for loop: m is n's i-th successor.
\* n is borrowed for the whole loop, so borrow_mut on m panics when m is n.
SortVisit ==
    /\ pc = "for"
    /\ LET m == heap[n.ptr].outgoing[i]
           inc == remove_item(heap[m.ptr].incoming, n)
           last == (i = Len(heap[n.ptr].outgoing))
       IN IF m.ptr = n.ptr
          THEN /\ pc' = "panic"
               /\ UNCHANGED <<heap, s, n, i>>
          ELSE /\ heap' = [heap EXCEPT ![m.ptr].incoming = inc]
               /\ s' = (IF inc = <<>> THEN SetInsert(s, Clone(m)) ELSE s)
               /\ pc' = (IF last THEN "while" ELSE "for")
               /\ n' = (IF last THEN NoRef ELSE n)
               /\ i' = (IF last THEN 0 ELSE i + 1)
    /\ UNCHANGED <<nodes, result, ret, pre, other, calls>>

\* the return that skips the scan of self.nodes
SortReturnNoScan ==
    /\ pc = "while"
    /\ s = {}
    /\ ret' = "Some"
    /\ pc' = "done"
    /\ UNCHANGED <<heap, nodes, s, result, n, i, pre, other, calls>>

\* topological_sort, after the while loop: None when a node of self.nodes still
\* has an incoming edge, Some(result) otherwise
SortReturn ==
    /\ pc = "while"
    /\ s = {}
    /\ ret' = (IF \E k \in 1..Len(nodes) : heap[nodes[k].ptr].incoming # <<>>
               THEN "None" ELSE "Some")
    /\ pc' = "done"
    /\ UNCHANGED <<heap, nodes, s, result, n, i, pre, other, calls>>

SortStep == SortRemove \/ SortVisit \/ SortReturn

Next ==
    \/ \E data \in Data : add_node(data)
    \/ \E from \in Handles, to \in Handles : add_edge(from, to)
    \/ SortEnter
    \/ SortRemove
    \/ SortVisit
    \/ SortReturn

Spec == Init /\ [][Next]_vars

\* two DirectedGraph instances: edges may join handles of either
NextForeign ==
    \/ \E data \in Data : add_node(data)
    \/ \E data \in Data : add_node_other(data)
    \/ \E from \in Handles \cup OtherHandles, to \in Handles \cup OtherHandles :
          add_edge(from, to)
    \/ SortEnter
    \/ SortRemove
    \/ SortVisit
    \/ SortReturn

SpecForeign == Init /\ [][NextForeign]_vars

\* topological_sort is one synchronous call: once entered, its steps are taken
FairSpec == Spec /\ WF_vars(SortStep)

-----------------------------------------------------------------------------
\* Vocabulary of the properties.  Nodes are named by their address.

Ptrs(h) == 1..Len(h)

\* how often the node at address p occurs in a list of handles
Count(seq, p) == Cardinality({k \in 1..Len(seq) : seq[k].ptr = p})

\* the successors of u in heap h
Succ(h, u) == {h[u].outgoing[k].ptr : k \in 1..Len(h[u].outgoing)}

RECURSIVE Closure(_, _)
Closure(h, set) ==
    LET nxt == set \cup UNION {Succ(h, u) : u \in set}
    IN IF nxt = set THEN set ELSE Closure(h, nxt)

\* the nodes reachable from u along one or more edges
Descendants(h, u) == Closure(h, Succ(h, u))

OnCycle(h, u) == u \in Descendants(h, u)
Cyclic(h) == \E u \in Ptrs(h) : OnCycle(h, u)

\* on a cycle, or reachable from a node on a cycle
Tainted(h, u) == \E c \in Ptrs(h) : OnCycle(h, c) /\ (u = c \/ u \in Descendants(h, c))

HasParallelEdge(h) == \E u \in Ptrs(h), v \in Ptrs(h) : Count(h[u].outgoing, v) >= 2

InResult(p) == \E k \in 1..Len(result) : result[k].ptr = p
InS(p) == \E e \in s : e.ptr = p

-----------------------------------------------------------------------------
\* C1: on an acyclic graph topological_sort returns an ordering (not None) that
\* holds every node of the graph exactly once, so its length is the node count.
C1_AcyclicSortsAllNodes ==
    (pc = "done" /\ ~Cyclic(pre)) =>
        /\ ret = "Some"
        /\ Len(result) = Len(nodes)
        /\ \A k \in 1..Len(nodes) : Count(result, nodes[k].ptr) = 1

\* an acyclic graph of three nodes with a parallel edge and an isolated node, sorted
C1_Witness ==
    /\ pc = "done"
    /\ ~Cyclic(pre)
    /\ Len(nodes) = 3
    /\ HasParallelEdge(pre)
    /\ \E u \in Ptrs(pre) : pre[u].incoming = <<>> /\ pre[u].outgoing = <<>>
    /\ ret = "Some"

\* C2: when an ordering is returned, for every edge u -> v of the original graph
\* u stands at a strictly earlier position than v in it.
C2_EdgesPointForward ==
    ret = "Some" =>
        \A u \in Ptrs(pre) : \A v \in Succ(pre, u) :
            /\ InResult(u)
            /\ InResult(v)
            /\ \A a \in 1..Len(result), b \in 1..Len(result) :
                   (result[a].ptr = u /\ result[b].ptr = v) => a < b

\* an ordering was returned for a graph where two nodes were ready at once and
\* a third node has both as predecessors
C2_Witness ==
    /\ ret = "Some"
    /\ \E u \in Ptrs(pre), v \in Ptrs(pre), w \in Ptrs(pre) :
          /\ u # v
          /\ w \in Succ(pre, u)
          /\ w \in Succ(pre, v)
          /\ result[3].ptr = w

\* C3: on a graph with a directed cycle (a self-loop included) topological_sort
\* returns None, whatever acyclic parts the graph has.
C3_CycleReturnsNone ==
    (pc = "done" /\ Cyclic(pre)) => ret = "None"

\* None was returned for a graph with a self-loop whose acyclic part was output
C3_Witness ==
    /\ pc = "done"
    /\ ret = "None"
    /\ \E u \in Ptrs(pre) : u \in Succ(pre, u)
    /\ Len(result) >= 1

\* C4: parallel edges are counted per occurrence: each visit of m in n's outgoing
\* list removes exactly one occurrence of n from m's incoming list, so while the
\* for loop over n's outgoing list runs, m's incoming list holds n as often as
\* before the call minus the visits of m made so far.
C4_OneOccurrencePerVisit ==
    pc = "for" =>
        \A m \in Ptrs(heap) :
            Count(heap[m].incoming, n.ptr) + Count(SubSeq(heap[n.ptr].outgoing, 1, i - 1), m)
                = Count(pre[m].incoming, n.ptr)

\* C5: add_edge(from, to) is possible for every pair of handles; it appends `to`
\* at the end of from's outgoing list and `from` at the end of to's incoming
\* list, lengthens exactly these two lists by one, and leaves every other list
\* and the node list as they are.
C5_AddEdgeAppends ==
    (pc = "build" /\ NumEdges(heap) < MaxEdges) =>
        \A from \in Handles, to \in Handles :
            ENABLED
              /\ add_edge(from, to)
              /\ nodes' = nodes
              /\ Len(heap') = Len(heap)
              /\ heap'[from.ptr].outgoing = Append(heap[from.ptr].outgoing, to)
              /\ heap'[to.ptr].incoming = Append(heap[to.ptr].incoming, from)
              /\ \A p \in Ptrs(heap) :
                    /\ heap'[p].data = heap[p].data
                    /\ p # from.ptr => heap'[p].outgoing = heap[p].outgoing
                    /\ p # to.ptr => heap'[p].incoming = heap[p].incoming

\* add_edge has added the edge 1 -> 2 twice and a self-loop on node 2
C5_Witness ==
    /\ pc = "build"
    /\ Len(nodes) >= 2
    /\ Count(heap[1].outgoing, 2) = 2
    /\ Count(heap[2].incoming, 1) = 2
    /\ Count(heap[2].outgoing, 2) = 1
    /\ Count(heap[2].incoming, 2) = 1

\* C6: the node list holds exactly the handles add_node returned, each once and
\* in creation order, until the graph is consumed; every add_node call creates
\* a node with empty lists and lengthens the node list by exactly one.
C6_NodeListInv ==
    /\ Len(nodes) = Len(heap)
    /\ \A k \in 1..Len(nodes) : nodes[k].ptr = k

C6_AddNodeStep ==
    \A data \in Data :
        add_node(data) =>
            /\ Len(nodes') = Len(nodes) + 1
            /\ SubSeq(nodes', 1, Len(nodes)) = nodes
            /\ heap'[nodes'[Len(nodes')].ptr] = [data |-> data, incoming |-> <<>>, outgoing |-> <<>>]
            /\ SubSeq(heap', 1, Len(heap)) = heap

C6_NodeList == [](C6_NodeListInv) /\ [][C6_AddNodeStep]_vars

\* three add_node calls were made, edges were added, and the graph was consumed
C6_Witness ==
    /\ Len(nodes) = 3
    /\ NumEdges(pre) >= 2
    /\ pc = "done"

\* The work topological_sort has left: a removal from S and one loop iteration
\* per outgoing edge for every node not yet in result, the rest of the running
\* for loop, and the return.
RECURSIVE WorkOf(_)
WorkOf(set) ==
    IF set = {} THEN 0
    ELSE LET u == CHOOSE x \in set : TRUE
         IN (IF InResult(u) THEN 0 ELSE 1 + Len(heap[u].outgoing)) + WorkOf(set \ {u})

Work ==
    WorkOf(Ptrs(heap))
      + (IF pc = "for" THEN (Len(heap[n.ptr].outgoing) + 1) - i ELSE 0)
      + (IF pc = "done" THEN 0 ELSE 1)

\* C7: topological_sort terminates on every graph, cyclic or not: every step of
\* it uses up some of the work left, and once entered the call returns an
\* ordering or None.
C7_Terminates ==
    /\ [][(pc \in {"while", "for"}) => Work' < Work]_vars
    /\ (pc \in {"while", "for"}) ~> (pc = "done" /\ ret \in {"Some", "None"})

\* the call has returned on a graph with a cycle, a parallel edge and a ready node
C7_Witness ==
    /\ pc = "done"
    /\ Cyclic(pre)
    /\ HasParallelEdge(pre)
    /\ Len(result) >= 1

\* C8: handles are equal exactly when they refer to the same node, never by
\* payload: a clone equals its original, the handles of two add_node calls are
\* unequal though their payloads are identical, and S holds one element per node.
C8_IdentityEquality ==
    /\ \A a \in 1..Len(nodes), b \in 1..Len(nodes) :
          /\ NodeRefEq(nodes[a], nodes[b]) <=> (a = b)
          /\ NodeRefEq(Clone(nodes[a]), nodes[b]) <=> (a = b)
    /\ \A x \in s, y \in s : NodeRefEq(x, y) <=> (x = y)
    /\ \A k \in 1..Len(nodes) :
          (pc = "while" /\ result = <<>> /\ heap[k].incoming = <<>>) => InS(k)

\* two nodes with identical payloads are both in S
C8_Witness ==
    /\ pc = "while"
    /\ Len(nodes) >= 2
    /\ heap[1].data = heap[2].data
    /\ InS(1)
    /\ InS(2)

\* C9: a node enters S at most once: a node that was removed from S and pushed
\* to result is never in S again, and no node is twice in result.
C9_EntersReadyOnce ==
    /\ \A p \in Ptrs(heap) : Count(result, p) <= 1
    /\ \A p \in Ptrs(heap) : ~(InResult(p) /\ InS(p))

C9_Step ==
    \A p \in Ptrs(heap) :
        /\ (~InS(p) /\ InS(p)') => ~InResult(p)
        /\ (InS(p) /\ ~InS(p)') => InResult(p)'

C9_ReadyOnce == [](C9_EntersReadyOnce) /\ [][C9_Step]_vars

\* all three nodes were output, one of them with two parallel incoming edges
\* from the same predecessor
C9_Witness ==
    /\ pc = "done"
    /\ Len(result) = 3
    /\ \E u \in Ptrs(pre), v \in Ptrs(pre) : u # v /\ Count(pre[v].incoming, u) = 2

\* C10: a node on a cycle or reachable from one always keeps an incoming edge,
\* is never in S and never in result; once S has drained, the nodes with a
\* non-empty incoming list are exactly these nodes.
C10_CycleNodesStay ==
    pc \in {"while", "for", "done"} =>
        /\ \A u \in Ptrs(pre) :
              Tainted(pre, u) => (heap[u].incoming # <<>> /\ ~InS(u) /\ ~InResult(u))
        /\ ((pc = "while" /\ s = {}) \/ pc = "done") =>
              \A u \in Ptrs(pre) : (heap[u].incoming # <<>>) <=> Tainted(pre, u)

\* S has drained on a graph with a ready node, a cycle and a node behind the cycle
C10_Witness ==
    /\ pc = "done"
    /\ Len(result) >= 1
    /\ \E u \in Ptrs(pre) : Tainted(pre, u) /\ ~OnCycle(pre, u)

\* the predecessors of u in heap h
Pred(h, u) == {v \in Ptrs(h) : u \in Succ(h, v)}

\* u may stand next in a topological ordering that starts with result
MayComeNext(u) == ~InResult(u) /\ \A v \in Pred(pre, u) : InResult(v)

\* C11: the choice of the node removed next is unconstrained: on an acyclic graph,
\* whenever the while loop is at its head, every node that may come next in a
\* topological ordering can be the one removed and pushed to result, so every
\* topological ordering can be returned; creation order is no tie-break.
C11_AnyReadyNodeNext ==
    (pc = "while" /\ ~Cyclic(pre)) =>
        \A u \in Ptrs(pre) :
            MayComeNext(u) =>
                ENABLED (SortRemove /\ result' = Append(result, [ptr |-> u]))

\* for the fork 1 -> 2, 1 -> 3 the ordering 1, 3, 2 was returned
C11_Witness ==
    /\ ret = "Some"
    /\ Len(pre) = 3
    /\ Succ(pre, 1) = {2, 3}
    /\ result = <<[ptr |-> 1], [ptr |-> 3], [ptr |-> 2]>>

\* C12: the borrow check never fires on a graph built by add_node and add_edge:
\* add_edge takes its two mutable borrows one after the other, also when from
\* and to are the same node, and topological_sort never removes from S a node
\* whose outgoing list holds the node itself.
C12_NoBorrowPanic ==
    /\ pc # "panic"
    /\ pc = "for" => n.ptr \notin Succ(heap, n.ptr)
    /\ \A e \in s : e.ptr \notin Succ(heap, e.ptr)
    /\ \A k \in 1..Len(result) : result[k].ptr \notin Succ(heap, result[k].ptr)

\* add_edge has made a self-loop, and the for loop runs on another node
C12_Witness ==
    /\ pc = "for"
    /\ \E u \in Ptrs(heap) : u \in Succ(heap, u)

\* C13: whenever topological_sort returns an ordering, every handle in it refers
\* to a node of the consumed graph's own node list and the ordering is as long
\* as that list, also when add_edge was given handles of another DirectedGraph.
C13_ResultWithinGraph ==
    ret = "Some" =>
        /\ \A k \in 1..Len(result) : \E j \in 1..Len(nodes) : NodeRefEq(result[k], nodes[j])
        /\ Len(result) = Len(nodes)

\* a is b with some elements left out
RECURSIVE IsSubSeq(_, _)
IsSubSeq(a, b) ==
    IF a = <<>> THEN TRUE
    ELSE IF b = <<>> THEN FALSE
    ELSE IF Head(a) = Head(b) THEN IsSubSeq(Tail(a), Tail(b))
    ELSE IsSubSeq(a, Tail(b))

\* C14: topological_sort mutates only incoming lists: at every step of the run
\* and after its return every node's outgoing list and payload are as before
\* the call and its incoming list is a sub-sequence of the one before the call;
\* after a run that returns an ordering every incoming list is empty.
C14_OnlyIncomingShrinks ==
    pc \in {"while", "for", "done"} =>
        /\ Len(heap) = Len(pre)
        /\ \A p \in Ptrs(pre) :
              /\ heap[p].outgoing = pre[p].outgoing
              /\ heap[p].data = pre[p].data
              /\ IsSubSeq(heap[p].incoming, pre[p].incoming)
              /\ ret = "Some" => heap[p].incoming = <<>>

\* a run has returned None and left a node with some but not all of its
\* incoming edges
C14_Witness ==
    /\ ret = "None"
    /\ \E p \in Ptrs(pre) :
          heap[p].incoming # <<>> /\ Len(heap[p].incoming) < Len(pre[p].incoming)

\* C15: before topological_sort is called the adjacency lists are symmetric: for
\* all nodes u and v, u = v included, v occurs in u's outgoing list as often as
\* u occurs in v's incoming list, and as often as add_edge(u, v) was called.
C15_AdjacencySymmetric ==
    pc = "build" =>
        \A u \in Ptrs(heap), v \in Ptrs(heap) :
            /\ Count(heap[u].outgoing, v) = Count(heap[v].incoming, u)
            /\ Count(heap[u].outgoing, v) = CopiesIn(<<u, v>>, calls)

\* add_edge(1, 1) was called once and add_edge(2, 1) twice
C15_Witness ==
    /\ pc = "build"
    /\ CopiesIn(<<1, 1>>, calls) = 1
    /\ CopiesIn(<<2, 1>>, calls) = 2

=============================================================================
